---- MODULE Spec2Model ----
(***************************************************************************)
(* Model of the xtask binding generator of tx3-lang/trp: the schema        *)
(* resolver (resolver.rs), the naming context and identifier sanitizer     *)
(* (mapper/mod.rs), the four per-language type mappers (mapper/*.rs) and   *)
(* the generation run (gen.rs).                                            *)
(*                                                                         *)
(* Representation.                                                         *)
(*   String        a sequence of tokens.  Names and reference strings are  *)
(*                 spelled one character per token; the string literals of *)
(*                 the code ("Record<string, ", " | null") are one token.  *)
(*   Option<T>     a sequence of length 0 (None) or 1 (Some(x) = <<x>>).   *)
(*   Result<T>     [ok |-> BOOLEAN, val |-> T, err |-> error kind].        *)
(*   HashMap       the sequence of its entries in declaration order; the   *)
(*                 iteration order of a std HashMap is arbitrary and is    *)
(*                 drawn nondeterministically where the code iterates.     *)
(*   schemars Map  the sequence of its entries in iteration order.         *)
(***************************************************************************)
EXTENDS Naturals, Sequences, FiniteSets, TLC

VARIABLES
    raw,        \* SpecIdent: the schema-declared name handed to the naming functions
    ident,      \* SpecIdent: Option of the last naming call [fn, lang, out]
    mfield,     \* SpecMap: the ResolvedField being type-mapped
    mlang,      \* SpecMap: the (lower-cased) language of the naming context
    mctx,       \* SpecMap: Option<LanguageContext>
    mout,       \* SpecMap: Option of [base, type, class] of the field's X_type helper
    args,       \* Spec: GenArgs of the run [openrpc, lang, clean]
    pc,         \* Spec: position of run()
    resolved,   \* Spec: the catalog returned by resolve_components
    err,        \* Spec: Option of the error run() returned
    li,         \* Spec: number of languages of args.lang already processed
    rendered,   \* Spec: per processed language, the declarations handed to the templates
    disk        \* Spec: the files under the output directory

vars == <<raw, ident, mfield, mlang, mctx, mout, args, pc, resolved, err, li, rendered, disk>>

identVars == <<raw, ident>>
mapVars == <<mfield, mlang, mctx, mout>>
runVars == <<args, pc, resolved, err, li, rendered, disk>>

----------------------------------------------------------------------------
(* Bounds of the model *)

\* longest schema-declared name handed to the naming functions
MaxLen == 3
\* longest --lang list of a run
MaxLangs == 3
\* call depth at which a collect_fields recursion is taken to be unbounded
\* (a stack overflow); larger than the depth any acyclic document here needs
MaxDepth == 8

----------------------------------------------------------------------------
(* Option and Result *)

None == <<>>
Some(x) == <<x>>
IsSome(o) == Len(o) = 1
IsNone(o) == Len(o) = 0
Unwrap(o) == o[1]

Ok(v) == [ok |-> TRUE, val |-> v, err |-> "none"]
Err(e) == [ok |-> FALSE, val |-> <<>>, err |-> e]

Range(s) == {s[i] : i \in 1..Len(s)}

RECURSIVE Concat(_)
\* Iterator::flatten / join without separator of a sequence of sequences
Concat(ss) == IF ss = <<>> THEN <<>> ELSE Head(ss) \o Concat(Tail(ss))

RECURSIVE Join(_, _)
\* [String]::join(sep)
Join(ss, sep) ==
    IF ss = <<>> THEN <<>>
    ELSE IF Len(ss) = 1 THEN ss[1]
    ELSE ss[1] \o <<sep>> \o Join(Tail(ss), sep)

----------------------------------------------------------------------------
(* Characters (ASCII) *)

LowerCase == <<"a","b","c","d","e","f","g","h","i","j","k","l","m",
               "n","o","p","q","r","s","t","u","v","w","x","y","z">>
UpperCase == <<"A","B","C","D","E","F","G","H","I","J","K","L","M",
               "N","O","P","Q","R","S","T","U","V","W","X","Y","Z">>
Digits == {"0","1","2","3","4","5","6","7","8","9"}

IsLower(ch) == \E i \in 1..Len(LowerCase) : LowerCase[i] = ch
IsUpper(ch) == \E i \in 1..Len(UpperCase) : UpperCase[i] = ch

\* char::is_ascii_alphanumeric
is_ascii_alphanumeric(ch) == IsLower(ch) \/ IsUpper(ch) \/ ch \in Digits

\* char::to_uppercase, on the ASCII alphanumerics it is applied to
to_uppercase(ch) ==
    IF IsLower(ch) THEN UpperCase[CHOOSE i \in 1..Len(LowerCase) : LowerCase[i] = ch] ELSE ch

\* char::to_ascii_lowercase
to_ascii_lowercase(ch) ==
    IF IsUpper(ch) THEN LowerCase[CHOOSE i \in 1..Len(UpperCase) : UpperCase[i] = ch] ELSE ch

\* str::to_lowercase on ASCII text
to_lowercase(s) == [i \in 1..Len(s) |-> to_ascii_lowercase(s[i])]

----------------------------------------------------------------------------
(* Identifier sanitizer and per-language naming: mapper/mod.rs, mapper/*.rs *)

PlaceholderType == <<"T","y","p","e">>
PlaceholderField == <<"f","i","e","l","d">>

\* mutant: the capitalize flag is not set again by a dropped character
RECURSIVE SanitizeLoopNoBoundary(_, _, _, _)
SanitizeLoopNoBoundary(name, i, out, capitalize) ==
    IF i > Len(name) THEN out
    ELSE IF is_ascii_alphanumeric(name[i])
         THEN IF capitalize
              THEN SanitizeLoopNoBoundary(name, i + 1, Append(out, to_uppercase(name[i])), FALSE)
              ELSE SanitizeLoopNoBoundary(name, i + 1, Append(out, name[i]), FALSE)
         ELSE SanitizeLoopNoBoundary(name, i + 1, out, capitalize)

RECURSIVE SanitizeLoop(_, _, _, _)
\* the for loop of sanitize_identifier from character i on
SanitizeLoop(name, i, out, capitalize) ==
    IF i > Len(name) THEN out
    ELSE IF is_ascii_alphanumeric(name[i])
         THEN IF capitalize
              THEN SanitizeLoop(name, i + 1, Append(out, to_uppercase(name[i])), FALSE)
              ELSE SanitizeLoop(name, i + 1, Append(out, name[i]), FALSE)
         ELSE SanitizeLoop(name, i + 1, out, TRUE)

sanitize_identifier(name) ==
    LET out == SanitizeLoop(name, 1, <<>>, TRUE)
    IN  IF out = <<>> THEN PlaceholderType ELSE out

ts_type_name(r) == sanitize_identifier(r)
python_type_name(r) == sanitize_identifier(r)
go_type_name(r) == sanitize_identifier(r)
rust_type_name(r) == sanitize_identifier(r)

ts_field_name(r) ==
    IF r = <<>> THEN PlaceholderField
    ELSE <<to_ascii_lowercase(Head(r))>> \o Tail(r)

python_field_name(r) == r

go_field_name(r) ==
    LET id == sanitize_identifier(r)
    IN  IF Len(id) >= 1 THEN <<to_uppercase(Head(id))>> \o Tail(id) ELSE id

RECURSIVE RustFieldLoop(_, _, _)
\* the for loop of rust::field_name; i is the 1-based position (enumerate index + 1)
RustFieldLoop(r, i, out) ==
    IF i > Len(r) THEN out
    ELSE IF is_ascii_alphanumeric(r[i])
         THEN IF i = 1
              THEN RustFieldLoop(r, i + 1, Append(out, to_ascii_lowercase(r[i])))
              ELSE RustFieldLoop(r, i + 1, Append(out, r[i]))
         ELSE IF ~(out # <<>> /\ out[Len(out)] = "_")
              THEN RustFieldLoop(r, i + 1, Append(out, "_"))
              ELSE RustFieldLoop(r, i + 1, out)

rust_field_name(r) ==
    LET out == RustFieldLoop(r, 1, <<>>)
    IN  IF out = <<>> THEN PlaceholderField ELSE out

\* the four template families of render_language
Families == {"ts", "python", "go", "rust"}

\* mapper::<family>::type_name
type_name(family, r) ==
    CASE family = "ts" -> ts_type_name(r)
      [] family = "python" -> python_type_name(r)
      [] family = "go" -> go_type_name(r)
      [] family = "rust" -> rust_type_name(r)

\* ResolvedField::ts_name / python_name / go_name / rust_name
field_name(family, r) ==
    CASE family = "ts" -> ts_field_name(r)
      [] family = "python" -> python_field_name(r)
      [] family = "go" -> go_field_name(r)
      [] family = "rust" -> rust_field_name(r)

----------------------------------------------------------------------------
(* Schemas: schemars::schema, openrpc.rs *)

\* SchemaObject::default()
DefaultSchemaObject ==
    [reference |-> None, subschemas |-> None, enum_values |-> None,
     instance_type |-> None, array |-> None, object |-> None]

\* Schema::Bool(b) and Schema::Object(obj)
SchemaBool(b) == [bool |-> Some(b), obj |-> None]
SchemaObj(o) == [bool |-> None, obj |-> Some(o)]

\* SingleOrVec::Single(x) and SingleOrVec::Vec(list)
Single(x) == [vec |-> FALSE, items |-> <<x>>]
Vec(list) == [vec |-> TRUE, items |-> list]

\* SubschemaValidation::default(), ObjectValidation::default(), ArrayValidation::default()
DefaultSubschemas == [all_of |-> None, any_of |-> None, one_of |-> None]
DefaultObject == [properties |-> <<>>, required |-> {}, additional_properties |-> None]
DefaultArray == [items |-> None]

\* AdditionalProperties::Schema(schema) and AdditionalProperties::Bool(b)
ApSchema(s) == [is_bool |-> FALSE, bool |-> FALSE, schema |-> Some(s)]
ApBool(b) == [is_bool |-> TRUE, bool |-> b, schema |-> None]

\* serde_json::Value: a string value or another kind of value
JsonStr(s) == [as_str |-> Some(s)]
JsonOther == [as_str |-> None]

\* resolver.rs: normalize_schema
normalize_schema(schema) ==
    IF IsSome(schema.bool) THEN DefaultSchemaObject ELSE Unwrap(schema.obj)

\* HashMap::get on a map held as its sequence of [name, schema] entries
HashGet(map, key) ==
    IF \E i \in 1..Len(map) : map[i].name = key
    THEN Some(map[CHOOSE i \in 1..Len(map) : map[i].name = key].schema)
    ELSE None

\* the orders in which a std HashMap of this size may be iterated
IterationOrders(map) ==
    {p \in [1..Len(map) -> 1..Len(map)] : \A i, j \in 1..Len(map) : p[i] = p[j] => i = j}

----------------------------------------------------------------------------
(* Errors: the anyhow context messages of resolver.rs and gen.rs *)

MissingComponents == "no components.schemas present in OpenRPC spec"
UnknownReference == "missing referenced schema"
MalformedReference == "invalid reference string"
UnsupportedLanguage == "unsupported language"
LoadFailed == "failed to read or parse the OpenRPC spec"
\* not an error value of the program: the recursion did not end (stack exhaustion)
UnboundedRecursion == "unbounded recursion"

Error(msg, subject) == [msg |-> msg, subject |-> subject]

----------------------------------------------------------------------------
(* Reference and composition resolver: resolver.rs *)

RECURSIVE SplitFrom(_, _, _, _)
\* str::split(sep): the segments of s from position i on, cur being the open segment
SplitFrom(s, sep, i, cur) ==
    IF i > Len(s) THEN <<cur>>
    ELSE IF s[i] = sep THEN <<cur>> \o SplitFrom(s, sep, i + 1, <<>>)
    ELSE SplitFrom(s, sep, i + 1, Append(cur, s[i]))

Split(s, sep) == SplitFrom(s, sep, 1, <<>>)

\* Iterator::last
Last(items) == IF items = <<>> THEN None ELSE Some(items[Len(items)])

\* resolver.rs: ref_to_name
ref_to_name(reference) ==
    LET last == Last(Split(reference, "/"))
    IN  IF IsSome(last) THEN Ok(Unwrap(last)) ELSE Err(Error(MalformedReference, <<>>))

\* mutant: a property is required as soon as the object requires anything
PropertyFieldAnyRequired(object, prop) ==
    [name |-> prop.name,
     schema |-> normalize_schema(prop.schema),
     required |-> object.required # {}]

\* resolver.rs: the closure of collect_fields that turns a property into a field
PropertyField(object, prop) ==
    [name |-> prop.name,
     schema |-> normalize_schema(prop.schema),
     required |-> prop.name \in object.required]

RECURSIVE collect_fields(_, _, _)
RECURSIVE CollectAllOf(_, _, _, _, _)

\* mutant: a field whose name an earlier branch already declared is dropped
CollectAllOfDedup(all_of, i, fields, components, depth) ==
    IF i > Len(all_of) THEN Ok(fields)
    ELSE LET r == collect_fields(normalize_schema(all_of[i]), components, depth + 1)
             fresh == SelectSeq(r.val, LAMBDA f : \A k \in 1..Len(fields) : fields[k].name # f.name)
         IN  IF ~r.ok THEN r
             ELSE CollectAllOf(all_of, i + 1, fields \o fresh, components, depth)

\* mutant: a reference to an undeclared schema resolves to no fields
collect_fields_swallow(schema, components, depth) ==
    IF depth > MaxDepth THEN Err(Error(UnboundedRecursion, <<>>))
    ELSE IF IsSome(schema.reference)
    THEN LET target_name == ref_to_name(Unwrap(schema.reference))
         IN  IF ~target_name.ok THEN target_name
             ELSE LET target_schema == HashGet(components, target_name.val)
                  IN  IF IsNone(target_schema)
                      THEN Ok(<<>>)
                      ELSE collect_fields(normalize_schema(Unwrap(target_schema)),
                                          components, depth + 1)
    ELSE IF IsSome(schema.subschemas) /\ IsSome(Unwrap(schema.subschemas).all_of)
    THEN CollectAllOf(Unwrap(Unwrap(schema.subschemas).all_of), 1, <<>>, components, depth)
    ELSE IF IsSome(schema.object)
    THEN LET object == Unwrap(schema.object)
         IN  Ok([i \in 1..Len(object.properties) |-> PropertyField(object, object.properties[i])])
    ELSE Ok(<<>>)

\* mutant: the schemas of the properties are resolved too, eagerly
collect_fields_deep(schema, components, depth) ==
    IF depth > MaxDepth THEN Err(Error(UnboundedRecursion, <<>>))
    ELSE IF IsSome(schema.reference)
    THEN LET target_name == ref_to_name(Unwrap(schema.reference))
         IN  IF ~target_name.ok THEN target_name
             ELSE LET target_schema == HashGet(components, target_name.val)
                  IN  IF IsNone(target_schema)
                      THEN Err(Error(UnknownReference, target_name.val))
                      ELSE collect_fields(normalize_schema(Unwrap(target_schema)),
                                          components, depth + 1)
    ELSE IF IsSome(schema.subschemas) /\ IsSome(Unwrap(schema.subschemas).all_of)
    THEN CollectAllOf(Unwrap(Unwrap(schema.subschemas).all_of), 1, <<>>, components, depth)
    ELSE IF IsSome(schema.object)
    THEN LET object == Unwrap(schema.object)
             deep == CollectAllOf([i \in 1..Len(object.properties) |-> object.properties[i].schema],
                                  1, <<>>, components, depth)
         IN  IF ~deep.ok THEN deep
             ELSE Ok([i \in 1..Len(object.properties) |->
                        PropertyField(object, object.properties[i])])
    ELSE Ok(<<>>)

\* the for loop over all_of of collect_fields, from member i on
CollectAllOf(all_of, i, fields, components, depth) ==
    IF i > Len(all_of) THEN Ok(fields)
    ELSE LET r == collect_fields(normalize_schema(all_of[i]), components, depth + 1)
         IN  IF ~r.ok THEN r
             ELSE CollectAllOf(all_of, i + 1, fields \o r.val, components, depth)

\* resolver.rs: collect_fields; depth counts the calls on the stack
collect_fields(schema, components, depth) ==
    IF depth > MaxDepth THEN Err(Error(UnboundedRecursion, <<>>))
    ELSE IF IsSome(schema.reference)
    THEN LET target_name == ref_to_name(Unwrap(schema.reference))
         IN  IF ~target_name.ok THEN target_name
             ELSE LET target_schema == HashGet(components, target_name.val)
                  IN  IF IsNone(target_schema)
                      THEN Err(Error(UnknownReference, target_name.val))
                      ELSE collect_fields(normalize_schema(Unwrap(target_schema)),
                                          components, depth + 1)
    ELSE IF IsSome(schema.subschemas) /\ IsSome(Unwrap(schema.subschemas).all_of)
    THEN CollectAllOf(Unwrap(Unwrap(schema.subschemas).all_of), 1, <<>>, components, depth)
    ELSE IF IsSome(schema.object)
    THEN LET object == Unwrap(schema.object)
         IN  Ok([i \in 1..Len(object.properties) |-> PropertyField(object, object.properties[i])])
    ELSE Ok(<<>>)

RECURSIVE ResolveLoop(_, _, _, _)
\* the for loop of resolve_components; order is the HashMap's iteration order
ResolveLoop(components, order, i, acc) ==
    IF i > Len(order) THEN Ok(acc)
    ELSE LET entry == components[order[i]]
             schema_obj == normalize_schema(entry.schema)
             fields == collect_fields(schema_obj, components, 0)
         IN  IF ~fields.ok THEN fields
             ELSE ResolveLoop(components, order, i + 1,
                              Append(acc, [name |-> entry.name, schema |-> schema_obj,
                                           fields |-> fields.val]))

\* resolver.rs: resolve_components, the components map being iterated in `order`
resolve_components(spec, order) ==
    IF IsNone(spec.components) \/ IsNone(Unwrap(spec.components).schemas)
    THEN Err(Error(MissingComponents, <<>>))
    ELSE ResolveLoop(Unwrap(Unwrap(spec.components).schemas), order, 1, <<>>)

\* the iteration orders resolve_components may see for a specification
SpecOrders(spec) ==
    IF IsNone(spec.components) \/ IsNone(Unwrap(spec.components).schemas)
    THEN {<<>>}
    ELSE IterationOrders(Unwrap(Unwrap(spec.components).schemas))

\* resolver.rs: array_item_schema
array_item_schema(array) ==
    IF IsNone(array.items) THEN None
    ELSE LET items == Unwrap(array.items)
         IN  IF ~items.vec THEN Some(normalize_schema(items.items[1]))
             ELSE IF items.items = <<>> THEN None
             ELSE Some(normalize_schema(items.items[1]))

\* mutant: only the boolean form of additionalProperties is understood
object_additional_properties_bool(object) ==
    IF IsNone(object.additional_properties) THEN None
    ELSE LET props == Unwrap(object.additional_properties)
         IN  IF props.is_bool /\ props.bool
             THEN Some([DefaultSchemaObject EXCEPT !.instance_type = Some(Single("object"))])
             ELSE None

\* resolver.rs: object_additional_properties
object_additional_properties(object) ==
    IF IsNone(object.additional_properties) THEN None
    ELSE LET props == Unwrap(object.additional_properties)
         IN  IF ~props.is_bool THEN Some(normalize_schema(Unwrap(props.schema)))
             ELSE IF props.bool
             THEN Some([DefaultSchemaObject EXCEPT !.instance_type = Some(Single("object"))])
             ELSE None

\* resolver.rs: one_of and any_of
one_of(subschemas) ==
    IF IsNone(subschemas.one_of) THEN None
    ELSE LET schemas == Unwrap(subschemas.one_of)
         IN  Some([i \in 1..Len(schemas) |-> normalize_schema(schemas[i])])

any_of(subschemas) ==
    IF IsNone(subschemas.any_of) THEN None
    ELSE LET schemas == Unwrap(subschemas.any_of)
         IN  Some([i \in 1..Len(schemas) |-> normalize_schema(schemas[i])])

----------------------------------------------------------------------------
(* Naming context: mapper/mod.rs *)

L_ts == <<"t","s">>
L_typescript == <<"t","y","p","e","s","c","r","i","p","t">>
L_python == <<"p","y","t","h","o","n">>
L_go == <<"g","o">>
L_rust == <<"r","u","s","t">>

\* the match on the language of build_context, wrap_optional and render_language
Family(lang) ==
    CASE lang = L_ts \/ lang = L_typescript -> Some("ts")
      [] lang = L_python -> Some("python")
      [] lang = L_go -> Some("go")
      [] lang = L_rust -> Some("rust")
      [] OTHER -> None

\* mapper/mod.rs: build_context; type_names is the HashMap as a function on its keys
build_context(types, lang) ==
    [type_names |->
        [n \in {types[i].name : i \in 1..Len(types)} |->
            IF IsSome(Family(lang)) THEN type_name(Unwrap(Family(lang)), n)
            ELSE sanitize_identifier(n)],
     language |-> lang]

\* mapper/mod.rs: LanguageContext::type_name
ctx_type_name(ctx, r) ==
    IF r \in DOMAIN ctx.type_names THEN ctx.type_names[r] ELSE sanitize_identifier(r)

\* mapper/mod.rs: LanguageContext::wrap_optional
wrap_optional(ctx, ty) ==
    CASE ctx.language = L_ts \/ ctx.language = L_typescript -> ty \o <<" | null">>
      [] ctx.language = L_python -> <<"Optional[">> \o ty \o <<"]">>
      [] ctx.language = L_go -> <<"*">> \o ty
      [] ctx.language = L_rust -> <<"Option<">> \o ty \o <<">">>
      [] OTHER -> ty

\* mutant: the referenced name is rendered raw, not through the naming context
map_reference_raw(schema, ctx) ==
    IF IsNone(schema.reference) THEN None
    ELSE LET n == ref_to_name(Unwrap(schema.reference))
         IN  IF ~n.ok THEN None ELSE Some(n.val)

\* mapper/mod.rs: map_reference
map_reference(schema, ctx) ==
    IF IsNone(schema.reference) THEN None
    ELSE LET n == ref_to_name(Unwrap(schema.reference))
         IN  IF ~n.ok THEN None ELSE Some(ctx_type_name(ctx, n.val))

\* mapper/mod.rs: map_primitive
map_primitive(schema) ==
    IF IsNone(schema.instance_type) THEN None
    ELSE LET types == Unwrap(schema.instance_type)
         IN  IF ~types.vec THEN Some(types.items[1])
             ELSE IF types.items = <<>> THEN None
             ELSE Some(types.items[1])

\* the filter_map of the enum branch: the string values, each in double quotes
EnumVariants(enum_values) ==
    LET strs == SelectSeq(enum_values, LAMBDA v : IsSome(v.as_str))
    IN  [i \in 1..Len(strs) |-> <<"\"">> \o Unwrap(strs[i].as_str) \o <<"\"">>]

HasSubschemas(schema) == IsSome(schema.subschemas)
IsKind(schema, kind) == map_primitive(schema) = Some(kind)

----------------------------------------------------------------------------
(* Type mappers: mapper/ts.rs, mapper/python.rs, mapper/go.rs, mapper/rust.rs *)

RECURSIVE ts_map_type(_, _)
\* mapper/ts.rs: map_type
ts_map_type(schema, ctx) ==
    LET sub == Unwrap(schema.subschemas)
        mapped(options) == [i \in 1..Len(options) |-> ts_map_type(options[i], ctx)]
    IN
    IF IsSome(map_reference(schema, ctx)) THEN Unwrap(map_reference(schema, ctx))
    ELSE IF HasSubschemas(schema) /\ IsSome(one_of(sub))
    THEN Join(mapped(Unwrap(one_of(sub))), " | ")
    ELSE IF HasSubschemas(schema) /\ IsSome(any_of(sub))
    THEN Join(mapped(Unwrap(any_of(sub))), " | ")
    ELSE IF IsSome(schema.enum_values) /\ EnumVariants(Unwrap(schema.enum_values)) # <<>>
    THEN Join(EnumVariants(Unwrap(schema.enum_values)), " | ")
    ELSE IF IsKind(schema, "array")
    THEN IF IsSome(schema.array) /\ IsSome(array_item_schema(Unwrap(schema.array)))
         THEN ts_map_type(Unwrap(array_item_schema(Unwrap(schema.array))), ctx) \o <<"[]">>
         ELSE <<"any[]">>
    ELSE IF IsKind(schema, "object")
    THEN IF IsSome(schema.object) /\ IsSome(object_additional_properties(Unwrap(schema.object)))
         THEN <<"Record<string, ">>
              \o ts_map_type(Unwrap(object_additional_properties(Unwrap(schema.object))), ctx)
              \o <<">">>
         ELSE <<"Record<string, any>">>
    ELSE CASE IsKind(schema, "string") -> <<"string">>
           [] IsKind(schema, "integer") \/ IsKind(schema, "number") -> <<"number">>
           [] IsKind(schema, "boolean") -> <<"boolean">>
           [] IsKind(schema, "null") -> <<"null">>
           [] OTHER -> <<"any">>

RECURSIVE python_map_type(_, _)
\* mapper/python.rs: map_type
python_map_type(schema, ctx) ==
    LET sub == Unwrap(schema.subschemas)
        mapped(options) == [i \in 1..Len(options) |-> python_map_type(options[i], ctx)]
    IN
    IF IsSome(map_reference(schema, ctx)) THEN Unwrap(map_reference(schema, ctx))
    ELSE IF HasSubschemas(schema) /\ IsSome(one_of(sub))
    THEN <<"Union[">> \o Join(mapped(Unwrap(one_of(sub))), ", ") \o <<"]">>
    ELSE IF HasSubschemas(schema) /\ IsSome(any_of(sub))
    THEN <<"Union[">> \o Join(mapped(Unwrap(any_of(sub))), ", ") \o <<"]">>
    ELSE IF IsSome(schema.enum_values) /\ EnumVariants(Unwrap(schema.enum_values)) # <<>>
    THEN <<"Literal[">> \o Join(EnumVariants(Unwrap(schema.enum_values)), ", ") \o <<"]">>
    ELSE IF IsKind(schema, "array")
    THEN IF IsSome(schema.array) /\ IsSome(array_item_schema(Unwrap(schema.array)))
         THEN <<"List[">>
              \o python_map_type(Unwrap(array_item_schema(Unwrap(schema.array))), ctx)
              \o <<"]">>
         ELSE <<"List[Any]">>
    ELSE IF IsKind(schema, "object")
    THEN IF IsSome(schema.object) /\ IsSome(object_additional_properties(Unwrap(schema.object)))
         THEN <<"Dict[str, ">>
              \o python_map_type(Unwrap(object_additional_properties(Unwrap(schema.object))), ctx)
              \o <<"]">>
         ELSE <<"Dict[str, Any]">>
    ELSE CASE IsKind(schema, "string") -> <<"str">>
           [] IsKind(schema, "integer") -> <<"int">>
           [] IsKind(schema, "number") -> <<"float">>
           [] IsKind(schema, "boolean") -> <<"bool">>
           [] IsKind(schema, "null") -> <<"None">>
           [] OTHER -> <<"Any">>

RECURSIVE go_map_type(_, _)
\* mapper/go.rs: map_type
go_map_type(schema, ctx) ==
    LET sub == Unwrap(schema.subschemas)
    IN
    IF IsSome(map_reference(schema, ctx)) THEN Unwrap(map_reference(schema, ctx))
    ELSE IF HasSubschemas(schema) /\ (IsSome(one_of(sub)) \/ IsSome(any_of(sub)))
    THEN <<"interface{}">>
    ELSE IF IsKind(schema, "array")
    THEN IF IsSome(schema.array) /\ IsSome(array_item_schema(Unwrap(schema.array)))
         THEN <<"[]">> \o go_map_type(Unwrap(array_item_schema(Unwrap(schema.array))), ctx)
         ELSE <<"[]interface{}">>
    ELSE IF IsKind(schema, "object")
    THEN IF IsSome(schema.object) /\ IsSome(object_additional_properties(Unwrap(schema.object)))
         THEN <<"map[string]">>
              \o go_map_type(Unwrap(object_additional_properties(Unwrap(schema.object))), ctx)
         ELSE <<"map[string]interface{}">>
    ELSE CASE IsKind(schema, "string") -> <<"string">>
           [] IsKind(schema, "integer") -> <<"int64">>
           [] IsKind(schema, "number") -> <<"float64">>
           [] IsKind(schema, "boolean") -> <<"bool">>
           [] IsKind(schema, "null") -> <<"interface{}">>
           [] OTHER -> <<"interface{}">>

RECURSIVE rust_map_type(_, _)
\* mapper/rust.rs: map_type
rust_map_type(schema, ctx) ==
    LET sub == Unwrap(schema.subschemas)
        mapped(options) == [i \in 1..Len(options) |-> rust_map_type(options[i], ctx)]
    IN
    IF IsSome(map_reference(schema, ctx)) THEN Unwrap(map_reference(schema, ctx))
    ELSE IF HasSubschemas(schema) /\ IsSome(one_of(sub))
    THEN <<"std::vec::Vec<">> \o Join(mapped(Unwrap(one_of(sub))), " | ") \o <<">">>
    ELSE IF HasSubschemas(schema) /\ IsSome(any_of(sub))
    THEN <<"std::vec::Vec<">> \o Join(mapped(Unwrap(any_of(sub))), " | ") \o <<">">>
    ELSE IF IsKind(schema, "array")
    THEN IF IsSome(schema.array) /\ IsSome(array_item_schema(Unwrap(schema.array)))
         THEN <<"Vec<">>
              \o rust_map_type(Unwrap(array_item_schema(Unwrap(schema.array))), ctx)
              \o <<">">>
         ELSE <<"Vec<serde_json::Value>">>
    ELSE IF IsKind(schema, "object")
    THEN IF IsSome(schema.object) /\ IsSome(object_additional_properties(Unwrap(schema.object)))
         THEN <<"std::collections::HashMap<String, ">>
              \o rust_map_type(Unwrap(object_additional_properties(Unwrap(schema.object))), ctx)
              \o <<">">>
         ELSE <<"std::collections::HashMap<String, serde_json::Value>">>
    ELSE CASE IsKind(schema, "string") -> <<"String">>
           [] IsKind(schema, "integer") -> <<"i64">>
           [] IsKind(schema, "number") -> <<"f64">>
           [] IsKind(schema, "boolean") -> <<"bool">>
           [] IsKind(schema, "null") -> <<"Option<serde_json::Value>">>
           [] OTHER -> <<"serde_json::Value">>

\* mapper/ts.rs: map_type, the branch that returns
ts_shape_class(schema, ctx) ==
    LET sub == Unwrap(schema.subschemas)
    IN
    IF IsSome(map_reference(schema, ctx)) THEN "reference"
    ELSE IF HasSubschemas(schema) /\ (IsSome(one_of(sub)) \/ IsSome(any_of(sub))) THEN "union"
    ELSE IF IsSome(schema.enum_values) /\ EnumVariants(Unwrap(schema.enum_values)) # <<>>
    THEN "enum"
    ELSE IF IsKind(schema, "array") THEN "array"
    ELSE IF IsKind(schema, "object") THEN "object"
    ELSE IF \E k \in {"string", "integer", "number", "boolean", "null"} : IsKind(schema, k)
    THEN "primitive"
    ELSE "fallback"

\* mapper/python.rs: map_type, the branch that returns
python_shape_class(schema, ctx) ==
    LET sub == Unwrap(schema.subschemas)
    IN
    IF IsSome(map_reference(schema, ctx)) THEN "reference"
    ELSE IF HasSubschemas(schema) /\ (IsSome(one_of(sub)) \/ IsSome(any_of(sub))) THEN "union"
    ELSE IF IsSome(schema.enum_values) /\ EnumVariants(Unwrap(schema.enum_values)) # <<>>
    THEN "enum"
    ELSE IF IsKind(schema, "array") THEN "array"
    ELSE IF IsKind(schema, "object") THEN "object"
    ELSE IF \E k \in {"string", "integer", "number", "boolean", "null"} : IsKind(schema, k)
    THEN "primitive"
    ELSE "fallback"

\* mapper/go.rs: map_type, the branch that returns
go_shape_class(schema, ctx) ==
    LET sub == Unwrap(schema.subschemas)
    IN
    IF IsSome(map_reference(schema, ctx)) THEN "reference"
    ELSE IF HasSubschemas(schema) /\ (IsSome(one_of(sub)) \/ IsSome(any_of(sub))) THEN "union"
    ELSE IF IsKind(schema, "array") THEN "array"
    ELSE IF IsKind(schema, "object") THEN "object"
    ELSE IF \E k \in {"string", "integer", "number", "boolean", "null"} : IsKind(schema, k)
    THEN "primitive"
    ELSE "fallback"

\* mapper/rust.rs: map_type, the branch that returns
rust_shape_class(schema, ctx) ==
    LET sub == Unwrap(schema.subschemas)
    IN
    IF IsSome(map_reference(schema, ctx)) THEN "reference"
    ELSE IF HasSubschemas(schema) /\ (IsSome(one_of(sub)) \/ IsSome(any_of(sub))) THEN "union"
    ELSE IF IsKind(schema, "array") THEN "array"
    ELSE IF IsKind(schema, "object") THEN "object"
    ELSE IF \E k \in {"string", "integer", "number", "boolean", "null"} : IsKind(schema, k)
    THEN "primitive"
    ELSE "fallback"

\* the branch of mapper::<family>::map_type that returns for a node
shape_class(family, schema, ctx) ==
    CASE family = "ts" -> ts_shape_class(schema, ctx)
      [] family = "python" -> python_shape_class(schema, ctx)
      [] family = "go" -> go_shape_class(schema, ctx)
      [] family = "rust" -> rust_shape_class(schema, ctx)

\* mapper::<family>::map_type
map_type(family, schema, ctx) ==
    CASE family = "ts" -> ts_map_type(schema, ctx)
      [] family = "python" -> python_map_type(schema, ctx)
      [] family = "go" -> go_map_type(schema, ctx)
      [] family = "rust" -> rust_map_type(schema, ctx)

\* gen.rs: OptionalRendering::maybe_optional
maybe_optional(ty, required, ctx) == IF required THEN ty ELSE wrap_optional(ctx, ty)

\* gen.rs: ResolvedField::ts_type, python_type, go_type, rust_type
ts_type(field, ctx) == maybe_optional(ts_map_type(field.schema, ctx), field.required, ctx)
python_type(field, ctx) == maybe_optional(python_map_type(field.schema, ctx), field.required, ctx)
go_type(field, ctx) == go_map_type(field.schema, ctx)
rust_type(field, ctx) == maybe_optional(rust_map_type(field.schema, ctx), field.required, ctx)

\* the X_type helper the templates of a family call for a field
field_type(family, field, ctx) ==
    CASE family = "ts" -> ts_type(field, ctx)
      [] family = "python" -> python_type(field, ctx)
      [] family = "go" -> go_type(field, ctx)
      [] family = "rust" -> rust_type(field, ctx)

----------------------------------------------------------------------------
(* SpecIdent: the naming functions applied to bounded schema-declared names *)

NameAlphabet == {"a", "B", "1", "-", "_"}

RECURSIVE StringsUpTo(_, _)
StringsUpTo(alphabet, n) ==
    IF n = 0 THEN {<<>>}
    ELSE LET shorter == StringsUpTo(alphabet, n - 1)
         IN  shorter \cup {Append(s, c) : s \in shorter, c \in alphabet}

RawNames == StringsUpTo(NameAlphabet, MaxLen)

InitIdent ==
    /\ raw \in RawNames
    /\ ident = None

Sanitize ==
    /\ ident' = Some([fn |-> "sanitize_identifier", lang |-> "any", out |-> sanitize_identifier(raw)])
    /\ UNCHANGED raw

TypeName ==
    \E family \in Families :
        /\ ident' = Some([fn |-> "type_name", lang |-> family, out |-> type_name(family, raw)])
        /\ UNCHANGED raw

FieldName ==
    \E family \in Families :
        /\ ident' = Some([fn |-> "field_name", lang |-> family, out |-> field_name(family, raw)])
        /\ UNCHANGED raw

----------------------------------------------------------------------------
(* Schema constructors used to write the inputs *)

TypeOf(kind) == [DefaultSchemaObject EXCEPT !.instance_type = Some(Single(kind))]
RefTo(reference) == [DefaultSchemaObject EXCEPT !.reference = Some(reference)]
AllOf(list) ==
    [DefaultSchemaObject EXCEPT
        !.subschemas = Some([DefaultSubschemas EXCEPT !.all_of = Some(list)])]
OneOf(list) ==
    [DefaultSchemaObject EXCEPT
        !.subschemas = Some([DefaultSubschemas EXCEPT !.one_of = Some(list)])]
AnyOf(list) ==
    [DefaultSchemaObject EXCEPT
        !.subschemas = Some([DefaultSubschemas EXCEPT !.any_of = Some(list)])]
Properties(props, required) ==
    [DefaultObject EXCEPT !.properties = props, !.required = required]
ObjectOf(props, required) ==
    [DefaultSchemaObject EXCEPT
        !.instance_type = Some(Single("object")),
        !.object = Some(Properties(props, required))]
MapOf(value) == [DefaultObject EXCEPT !.additional_properties = Some(ApSchema(SchemaObj(value)))]
ArrayOf(item) == [DefaultArray EXCEPT !.items = Some(Single(SchemaObj(item)))]
Prop(name, schema) == [name |-> name, schema |-> SchemaObj(schema)]
Entry(name, schema) == [name |-> name, schema |-> SchemaObj(schema)]

\* "#/c/s/<name>", the shape of "#/components/schemas/<name>"
RefPath(name) == <<"#", "/", "c", "/", "s", "/">> \o name

----------------------------------------------------------------------------
(* SpecMap: the type mappers applied to bounded field schemas *)

N_up == <<"u", "-", "p">>
N_b == <<"b">>
N_M == <<"M">>

\* the catalog the naming context of SpecMap is built from
MapCatalog ==
    << [name |-> N_up, schema |-> DefaultSchemaObject, fields |-> <<>>],
       [name |-> N_b, schema |-> DefaultSchemaObject, fields |-> <<>>] >>

MapReferences == {None, Some(RefPath(N_up)), Some(N_b), Some(RefPath(N_M))}

MapSubschemas ==
    {None,
     Some([DefaultSubschemas EXCEPT
            !.one_of = Some(<<SchemaObj(TypeOf("string")), SchemaObj(TypeOf("integer"))>>)]),
     Some([DefaultSubschemas EXCEPT
            !.any_of = Some(<<SchemaObj(RefTo(RefPath(N_up))), SchemaBool(TRUE)>>)]),
     Some([DefaultSubschemas EXCEPT !.all_of = Some(<<SchemaObj(TypeOf("string"))>>)])}

MapEnums ==
    {None,
     Some(<<JsonStr(<<"a">>), JsonOther, JsonStr(<<"b">>)>>),
     Some(<<JsonStr(<<"a">>), JsonStr(<<"b">>)>>),
     Some(<<JsonOther>>)}

MapInstanceTypes ==
    {None, Some(Vec(<<>>)), Some(Vec(<<"object", "null">>))}
    \cup {Some(Single(k)) : k \in {"string", "integer", "number", "boolean", "null",
                                    "array", "object"}}

MapArrays == {None, Some(ArrayOf(TypeOf("integer")))}

MapObjects ==
    {None,
     Some(MapOf(TypeOf("integer"))),
     Some([DefaultObject EXCEPT !.additional_properties = Some(ApBool(TRUE))]),
     Some(Properties(<<Prop(<<"x">>, TypeOf("string"))>>, {<<"x">>}))}

FieldSchemas ==
    [reference : MapReferences, subschemas : MapSubschemas, enum_values : MapEnums,
     instance_type : MapInstanceTypes, array : MapArrays, object : MapObjects]

MapLangs == {L_ts, L_typescript, L_python, L_go, L_rust}

InitMap ==
    /\ mfield \in [name : {<<"f">>}, schema : FieldSchemas, required : BOOLEAN]
    /\ mlang \in MapLangs
    /\ mctx = None
    /\ mout = None

\* mapper::build_context(&resolved, &lang) of run
BuildContext ==
    /\ mctx = None
    /\ mctx' = Some(build_context(MapCatalog, mlang))
    /\ UNCHANGED <<mfield, mlang, mout>>

\* field.<family>_type(ctx) of the templates: the base expression, then the wrap
MapFieldType ==
    /\ IsSome(mctx)
    /\ mout = None
    /\ LET family == Unwrap(Family(mlang))
       IN  mout' = Some([base |-> map_type(family, mfield.schema, Unwrap(mctx)),
                         type |-> field_type(family, mfield, Unwrap(mctx)),
                         class |-> shape_class(family, mfield.schema, Unwrap(mctx))])
    /\ UNCHANGED <<mfield, mlang, mctx>>


----------------------------------------------------------------------------
(* Spec: the generation run of gen.rs over bounded specifications *)

N_A == <<"A">>
N_B == <<"B">>
N_C == <<"C">>
N_x == <<"x">>
N_y == <<"y">>
N_z == <<"z">>

OpenRpcOf(schemas) == [components |-> Some([schemas |-> Some(schemas)])]

\* A = allOf [ $ref B, { properties: y } ], B = { x, required [x] }
DocConjunction ==
    OpenRpcOf(<<
        Entry(N_A, AllOf(<<SchemaObj(RefTo(RefPath(N_B))),
                           SchemaObj([DefaultSchemaObject EXCEPT
                               !.object = Some(Properties(<<Prop(N_y, TypeOf("string"))>>, {}))])>>)),
        Entry(N_B, ObjectOf(<<Prop(N_x, TypeOf("string"))>>, {N_x})) >>)

\* "u-p" = { d (required), a }
DocUserProfile ==
    OpenRpcOf(<<
        Entry(N_up, ObjectOf(<<Prop(<<"d">>, TypeOf("string")), Prop(<<"a">>, TypeOf("string"))>>,
                             {<<"d">>})) >>)

\* composed branches that declare the same field name, and a nested allOf
DocDuplicate ==
    OpenRpcOf(<<
        Entry(N_B, ObjectOf(<<Prop(N_x, TypeOf("boolean"))>>, {})),
        Entry(N_A, AllOf(<<SchemaObj(ObjectOf(<<Prop(N_x, TypeOf("string"))>>, {N_x})),
                           SchemaObj(AllOf(<<SchemaObj(ObjectOf(<<Prop(N_z, TypeOf("null")),
                                                                  Prop(N_x, TypeOf("integer"))>>,
                                                                {N_z, N_y})),
                                             SchemaBool(TRUE)>>)),
                           SchemaObj(RefTo(RefPath(N_B)))>>)) >>)

\* C -> A -> B -> allOf [ {x}, $ref M ], M not declared
DocDangling ==
    OpenRpcOf(<<
        Entry(N_C, RefTo(RefPath(N_A))),
        Entry(N_A, RefTo(RefPath(N_B))),
        Entry(N_B, AllOf(<<SchemaObj(ObjectOf(<<Prop(N_x, TypeOf("string"))>>, {})),
                           SchemaObj(RefTo(RefPath(N_M)))>>)) >>)

\* reference strings without a '/': one naming a declared schema, one not
DocNoSeparator ==
    OpenRpcOf(<<
        Entry(N_A, RefTo(N_B)),
        Entry(N_B, ObjectOf(<<Prop(N_x, TypeOf("integer"))>>, {N_x})) >>)

DocNoSeparatorUnknown ==
    OpenRpcOf(<<
        Entry(N_B, ObjectOf(<<Prop(N_x, TypeOf("integer"))>>, {N_x})),
        Entry(N_A, RefTo(N_M)) >>)

\* a node with a reference and a shape of its own; properties that refer to
\* their own type and to an undeclared one; a map-valued property
DocProperties ==
    OpenRpcOf(<<
        Entry(N_B, [ObjectOf(<<Prop(N_x, TypeOf("string"))>>, {N_x}) EXCEPT
                        !.reference = Some(RefPath(N_A))]),
        Entry(N_A, ObjectOf(<<Prop(N_z, RefTo(RefPath(N_A))),
                              Prop(N_y, RefTo(RefPath(N_M))),
                              Prop(N_x, [TypeOf("object") EXCEPT
                                            !.object = Some(MapOf(TypeOf("integer")))]),
                              [name |-> <<"w">>, schema |-> SchemaBool(TRUE)]>>,
                            {N_y, <<"w">>})) >>)

\* self-referential and mutually-referential $ref / allOf chains
DocSelfReference == OpenRpcOf(<<Entry(N_A, RefTo(RefPath(N_A)))>>)

DocMutualReference ==
    OpenRpcOf(<<
        Entry(N_A, AllOf(<<SchemaObj(RefTo(RefPath(N_B)))>>)),
        Entry(N_B, RefTo(RefPath(N_A))) >>)

DocCycleAndDangling ==
    OpenRpcOf(<<
        Entry(N_A, RefTo(RefPath(N_M))),
        Entry(N_B, RefTo(RefPath(N_B))) >>)

\* an undeclared reference met before, and after, a self-referential member
DocErrorBeforeCycle ==
    OpenRpcOf(<<
        Entry(N_A, AllOf(<<SchemaObj(RefTo(RefPath(N_M))), SchemaObj(RefTo(RefPath(N_A)))>>)) >>)

DocCycleBeforeError ==
    OpenRpcOf(<<
        Entry(N_A, AllOf(<<SchemaObj(RefTo(RefPath(N_A))), SchemaObj(RefTo(RefPath(N_M)))>>)) >>)

\* schemas without fields: a boolean schema, a primitive, an array, a union
DocShapes ==
    OpenRpcOf(<<
        [name |-> N_A, schema |-> SchemaBool(TRUE)],
        Entry(N_B, [TypeOf("array") EXCEPT !.array = Some(ArrayOf(RefTo(RefPath(N_A))))]),
        Entry(N_C, OneOf(<<SchemaObj(RefTo(RefPath(N_M))), SchemaObj(TypeOf("string"))>>)) >>)

DocEmpty == OpenRpcOf(<<>>)
DocNoComponents == [components |-> None]
DocNoSchemas == [components |-> Some([schemas |-> None])]

Documents ==
    {DocConjunction, DocUserProfile, DocDuplicate, DocDangling, DocNoSeparator,
     DocNoSeparatorUnknown, DocProperties, DocSelfReference, DocMutualReference,
     DocCycleAndDangling, DocErrorBeforeCycle, DocCycleBeforeError, DocShapes, DocEmpty,
     DocNoComponents, DocNoSchemas}

\* what load_openrpc finds at args.openrpc: None is an unreadable or unparsable file
OpenRpcFiles == {None} \cup {Some(d) : d \in Documents}

\* values of --lang: supported names, one in upper case, one unsupported
LangArgs == {L_ts, L_go, L_rust, <<"T", "S">>, <<"j", "a", "v", "a">>}

RECURSIVE SeqsUpTo(_, _)
SeqsUpTo(S, n) ==
    IF n = 0 THEN {<<>>}
    ELSE LET shorter == SeqsUpTo(S, n - 1)
         IN  shorter \cup {Append(s, x) : s \in shorter, x \in S}

StaleFile == [dir |-> L_go, name |-> "old.go"]

\* gen.rs: render_language, the files of a family
GeneratedFiles(family) ==
    CASE family = "ts" -> <<"types.ts", "package.json">>
      [] family = "python" -> <<"types.py", "pyproject.toml">>
      [] family = "go" -> <<"types.go", "go.mod">>
      [] family = "rust" -> <<"types.rs", "Cargo.toml">>

\* what the templates of a family read of the catalog through the helper methods
Declarations(family, types, ctx) ==
    [t \in 1..Len(types) |->
        [name |-> ctx_type_name(ctx, types[t].name),
         fields |-> [f \in 1..Len(types[t].fields) |->
                        [name |-> field_name(family, types[t].fields[f].name),
                         type |-> field_type(family, types[t].fields[f], ctx)]]]]

InitRun ==
    /\ args \in [openrpc : OpenRpcFiles, lang : SeqsUpTo(LangArgs, MaxLangs), clean : BOOLEAN]
    /\ pc = "start"
    /\ resolved = <<>>
    /\ err = None
    /\ li = 0
    /\ rendered = <<>>
    /\ disk \in {{}, {StaleFile}}

\* gen.rs run, lines 29-39: clean, create the output directory, load, resolve
RunResolve ==
    /\ pc = "start"
    /\ disk' = IF args.clean THEN {} ELSE disk
    /\ IF IsNone(args.openrpc)
       THEN /\ pc' = "failed"
            /\ err' = Some(Error(LoadFailed, <<>>))
            /\ UNCHANGED resolved
       ELSE \E order \in SpecOrders(Unwrap(args.openrpc)) :
              LET r == resolve_components(Unwrap(args.openrpc), order)
              IN  IF r.ok
                  THEN /\ pc' = "langs"
                       /\ resolved' = r.val
                       /\ UNCHANGED err
                  ELSE IF r.err.msg = UnboundedRecursion
                  THEN /\ pc' = "overflow"
                       /\ UNCHANGED <<resolved, err>>
                  ELSE /\ pc' = "failed"
                       /\ err' = Some(r.err)
                       /\ UNCHANGED resolved
    /\ UNCHANGED <<args, li, rendered>>

\* the directory fs::create_dir_all makes for a language, as an entry of the disk
DirEntry(lang) == [dir |-> lang, name |-> "."]

\* mutant: an unsupported language is passed over and the run goes on
RunLanguageSkip ==
    /\ pc = "langs"
    /\ li < Len(args.lang)
    /\ LET lang == to_lowercase(args.lang[li + 1])
           ctx == build_context(resolved, lang)
           family == Family(lang)
       IN  IF IsNone(family)
           THEN /\ li' = li + 1
                /\ UNCHANGED <<pc, err, rendered, disk>>
           ELSE /\ rendered' = Append(rendered,
                                      [lang |-> lang,
                                       types |-> Declarations(Unwrap(family), resolved, ctx)])
                /\ disk' = disk \cup {DirEntry(lang)}
                                 \cup {[dir |-> lang, name |-> n] :
                                        n \in Range(GeneratedFiles(Unwrap(family)))}
                /\ li' = li + 1
                /\ UNCHANGED <<pc, err>>
    /\ UNCHANGED <<args, resolved>>

\* gen.rs run, lines 41-53: one iteration of the loop over args.lang
RunLanguage ==
    /\ pc = "langs"
    /\ li < Len(args.lang)
    /\ LET lang == to_lowercase(args.lang[li + 1])
           ctx == build_context(resolved, lang)
           family == Family(lang)
       IN  IF IsNone(family)
           THEN /\ pc' = "failed"
                /\ err' = Some(Error(UnsupportedLanguage, lang))
                /\ UNCHANGED <<li, rendered, disk>>
           ELSE /\ rendered' = Append(rendered,
                                      [lang |-> lang,
                                       types |-> Declarations(Unwrap(family), resolved, ctx)])
                /\ disk' = disk \cup {DirEntry(lang)}
                                 \cup {[dir |-> lang, name |-> n] :
                                        n \in Range(GeneratedFiles(Unwrap(family)))}
                /\ li' = li + 1
                /\ UNCHANGED <<pc, err>>
    /\ UNCHANGED <<args, resolved>>

\* gen.rs run, line 55: Ok(())
RunReturn ==
    /\ pc = "langs"
    /\ li = Len(args.lang)
    /\ pc' = "done"
    /\ UNCHANGED <<args, resolved, err, li, rendered, disk>>

----------------------------------------------------------------------------
(* Specifications *)

IdleIdent == raw = <<>> /\ ident = None
IdleMap ==
    /\ mfield = [name |-> <<"f">>, schema |-> DefaultSchemaObject, required |-> TRUE]
    /\ mlang = L_ts
    /\ mctx = None
    /\ mout = None
IdleRun ==
    /\ args = [openrpc |-> None, lang |-> <<>>, clean |-> FALSE]
    /\ pc = "idle"
    /\ resolved = <<>>
    /\ err = None
    /\ li = 0
    /\ rendered = <<>>
    /\ disk = {}

Init == InitRun /\ IdleIdent /\ IdleMap
Next ==
    \/ RunResolve /\ UNCHANGED <<identVars, mapVars>>
    \/ RunLanguage /\ UNCHANGED <<identVars, mapVars>>
    \/ RunReturn /\ UNCHANGED <<identVars, mapVars>>
Spec == Init /\ [][Next]_vars

IdentInit == InitIdent /\ IdleMap /\ IdleRun
IdentNext ==
    \/ Sanitize /\ UNCHANGED <<mapVars, runVars>>
    \/ TypeName /\ UNCHANGED <<mapVars, runVars>>
    \/ FieldName /\ UNCHANGED <<mapVars, runVars>>
SpecIdent == IdentInit /\ [][IdentNext]_vars

MapInit == InitMap /\ IdleIdent /\ IdleRun
MapNext ==
    \/ BuildContext /\ UNCHANGED <<identVars, runVars>>
    \/ MapFieldType /\ UNCHANGED <<identVars, runVars>>
SpecMap == MapInit /\ [][MapNext]_vars


----------------------------------------------------------------------------
(* Properties *)

\* the run has loaded a specification that has a components.schemas section
HasSchemas ==
    /\ IsSome(args.openrpc)
    /\ IsSome(Unwrap(args.openrpc).components)
    /\ IsSome(Unwrap(Unwrap(args.openrpc).components).schemas)

\* the declared (name, schema) entries, in declaration order
Declared == Unwrap(Unwrap(Unwrap(args.openrpc).components).schemas)

DeclaredNames == {Declared[i].name : i \in 1..Len(Declared)}

\* resolve_components returned a catalog to run
ResolveSucceeded ==
    \/ pc \in {"langs", "done"}
    \/ pc = "failed" /\ Unwrap(err).msg = UnsupportedLanguage

\* the node has an "all of" list / a union list
HasAllOf(schema) == IsSome(schema.subschemas) /\ IsSome(Unwrap(schema.subschemas).all_of)
HasUnion(schema) ==
    /\ IsSome(schema.subschemas)
    /\ (IsSome(Unwrap(schema.subschemas).one_of) \/ IsSome(Unwrap(schema.subschemas).any_of))

\* the optional idiom of each target language, as the specification gives it
OptionalIdiom(family, ty) ==
    CASE family = "ts" -> ty \o <<" | null">>
      [] family = "python" -> <<"Optional[">> \o ty \o <<"]">>
      [] family = "go" -> <<"*">> \o ty
      [] family = "rust" -> <<"Option<">> \o ty \o <<">">>

\* C1 (as claimed): in every target language a required field renders the base
\* map_type expression unchanged and a field that is not required renders the
\* base expression wrapped in the language's optional idiom.
C1_OptionalWrapEveryLanguage ==
    IsSome(mout) =>
        LET family == Unwrap(Family(mlang))
            out == Unwrap(mout)
        IN  /\ out.base = map_type(family, mfield.schema, Unwrap(mctx))
            /\ out.type = IF mfield.required THEN out.base
                          ELSE OptionalIdiom(family, out.base)

\* C2 (as claimed): when resolve_components succeeds the catalog holds one entry
\* per declared name, in the declaration order of components.schemas.
C2_CatalogInDeclarationOrder ==
    (HasSchemas /\ ResolveSucceeded) =>
        /\ Len(resolved) = Len(Declared)
        /\ \A i \in 1..Len(resolved) : resolved[i].name = Declared[i].name

\* the field lists of the members of an allOf list, each resolved on its own
MemberFields(all_of) ==
    [i \in 1..Len(all_of) |-> collect_fields(normalize_schema(all_of[i]), Declared, 1).val]

FieldNames(fields) == [i \in 1..Len(fields) |-> fields[i].name]

\* C3: the fields of a catalog type whose schema has an allOf list and no $ref
\* are the concatenation, in allOf order, of the field lists of the members,
\* fields that share a name all kept; A = allOf [$ref B (x required), {y}]
\* resolves to exactly x (required) then y (not required).
C3_AllOfConcatenation ==
    (HasSchemas /\ ResolveSucceeded) =>
        /\ \A t \in 1..Len(resolved) :
              (IsNone(resolved[t].schema.reference) /\ HasAllOf(resolved[t].schema)) =>
                  resolved[t].fields =
                      Concat(MemberFields(Unwrap(Unwrap(resolved[t].schema.subschemas).all_of)))
        /\ args.openrpc = Some(DocConjunction) =>
              \A t \in 1..Len(resolved) :
                  resolved[t].name = N_A =>
                      resolved[t].fields =
                          << [name |-> N_x, schema |-> TypeOf("string"), required |-> TRUE],
                             [name |-> N_y, schema |-> TypeOf("string"), required |-> FALSE] >>
        /\ args.openrpc = Some(DocDuplicate) =>
              \A t \in 1..Len(resolved) :
                  resolved[t].name = N_A =>
                      FieldNames(resolved[t].fields) = <<N_x, N_z, N_x, N_x>>

\* C3 witness: a resolved allOf type two of whose members contribute fields,
\* among them fields that share a name
C3_Witness ==
    /\ HasSchemas /\ ResolveSucceeded
    /\ \E t \in 1..Len(resolved) :
          /\ IsNone(resolved[t].schema.reference) /\ HasAllOf(resolved[t].schema)
          /\ \E i, j \in 1..Len(resolved[t].fields) :
                i < j /\ resolved[t].fields[i].name = resolved[t].fields[j].name
          /\ Cardinality({m \in 1..Len(Unwrap(Unwrap(resolved[t].schema.subschemas).all_of)) :
                MemberFields(Unwrap(Unwrap(resolved[t].schema.subschemas).all_of))[m] # <<>>}) >= 2

\* the schema a property declares, as stored: the declared object itself
StoredSchema(schema) == IF IsSome(schema.bool) THEN DefaultSchemaObject ELSE schema.obj[1]

NoSeparator(reference) == \A i \in 1..Len(reference) : reference[i] # "/"

\* C5 (as claimed): a reference string without a '/' separator makes the
\* resolution of the type that carries it, and so the run, fail with
\* MalformedReference.
C5_NoSeparatorIsMalformed ==
    (HasSchemas /\ pc \notin {"start", "overflow"}
        /\ \E i \in 1..Len(Declared) :
              LET schema == normalize_schema(Declared[i].schema)
              IN  IsSome(schema.reference) /\ NoSeparator(Unwrap(schema.reference)))
    => (pc = "failed" /\ Unwrap(err).msg = MalformedReference)


RECURSIVE NodeRefs(_)
\* the names a schema node refers to through its $ref, or else through the
\* members of its allOf list (the links collect_fields follows)
NodeRefs(schema) ==
    IF IsSome(schema.reference) THEN {ref_to_name(Unwrap(schema.reference)).val}
    ELSE IF HasAllOf(schema)
    THEN UNION {NodeRefs(normalize_schema(Unwrap(Unwrap(schema.subschemas).all_of)[i])) :
                    i \in 1..Len(Unwrap(Unwrap(schema.subschemas).all_of))}
    ELSE {}

\* the undeclared names that some declared schema refers to by $ref / allOf
DanglingNames ==
    UNION {NodeRefs(normalize_schema(Declared[i].schema)) : i \in 1..Len(Declared)}
        \ DeclaredNames

\* C6: when a $ref followed from a declared schema, directly or through $ref /
\* allOf members, names a schema that components.schemas does not declare,
\* a resolve_components that returns returns an UnknownReference error naming
\* an undeclared schema, and run holds no catalog, whole or partial.
C6_UnknownReferenceIsFatal ==
    (HasSchemas /\ pc \notin {"start", "overflow"} /\ DanglingNames # {}) =>
        /\ pc = "failed"
        /\ IsSome(err)
        /\ Unwrap(err).msg = UnknownReference
        /\ Unwrap(err).subject \in DanglingNames
        /\ resolved = <<>>
        /\ rendered = <<>>

\* C6 witness: the undeclared name is two $ref links and an allOf member away
\* from the declared type whose resolution failed
C6_Witness ==
    /\ args.openrpc = Some(DocDangling)
    /\ pc = "failed"
    /\ Unwrap(err) = Error(UnknownReference, N_M)
    /\ resolved = <<>>

\* C7: for a schema node that carries a reference, in every target language,
\* map_type is the sanitized display name of the referenced name: the name the
\* naming context holds for it when it is a catalog type; the other fields of
\* the node (union, enum, array, object, primitive kind) change nothing.
C7_ReferenceTakesPrecedence ==
    (IsSome(mout) /\ IsSome(mfield.schema.reference)) =>
        LET target == ref_to_name(Unwrap(mfield.schema.reference)).val
            ctx == Unwrap(mctx)
        IN  /\ Unwrap(mout).base = sanitize_identifier(target)
            /\ target \in DOMAIN ctx.type_names =>
                  Unwrap(mout).base = ctx.type_names[target]

\* C7 witness: a node with a reference to the catalog type "u-p" that also
\* declares a union, an enum, an array shape, an object shape and a kind
C7_Witness ==
    /\ IsSome(mout)
    /\ mfield.schema.reference = Some(RefPath(N_up))
    /\ HasUnion(mfield.schema)
    /\ IsSome(mfield.schema.enum_values)
    /\ IsSome(mfield.schema.array)
    /\ IsSome(mfield.schema.object)
    /\ IsKind(mfield.schema, "array")
    /\ Unwrap(mout).base = <<"U", "P">>

\* the positions of the kept (ASCII alphanumeric) characters of a name
KeptPositions(name) ==
    SelectSeq([i \in 1..Len(name) |-> i], LAMBDA i : is_ascii_alphanumeric(name[i]))

\* the character at position p starts the name or follows a dropped character
AtBoundary(name, p) == p = 1 \/ ~is_ascii_alphanumeric(name[p - 1])

\* C8: sanitize_identifier gives "Type" for a name without an ASCII
\* alphanumeric character (the empty name included); its output holds only
\* ASCII alphanumeric characters; and each kept character that starts the name
\* or follows a run of dropped characters is upper-cased.
C8_SanitizeIdentifier ==
    (IsSome(ident) /\ Unwrap(ident).fn = "sanitize_identifier") =>
        LET out == Unwrap(ident).out
            kept == KeptPositions(raw)
        IN  /\ kept = <<>> => out = <<"T", "y", "p", "e">>
            /\ \A j \in 1..Len(out) : is_ascii_alphanumeric(out[j])
            /\ kept # <<>> =>
                  /\ Len(out) = Len(kept)
                  /\ \A k \in 1..Len(kept) :
                        AtBoundary(raw, kept[k]) =>
                            /\ ~IsLower(out[k])
                            /\ to_ascii_lowercase(out[k]) = to_ascii_lowercase(raw[kept[k]])

\* C8 witness: a lower-case letter after a separator has been upper-cased
C8_Witness ==
    /\ IsSome(ident)
    /\ Unwrap(ident).fn = "sanitize_identifier"
    /\ raw = <<"a", "-", "a">>
    /\ Unwrap(ident).out = <<"A", "A">>

\* a valid identifier: not empty, letters, digits and underscores only, no
\* digit first
ValidIdentifier(id) ==
    /\ id # <<>>
    /\ \A i \in 1..Len(id) : is_ascii_alphanumeric(id[i]) \/ id[i] = "_"
    /\ id[1] \notin Digits

\* C9 (as claimed): in every target language type_name and field_name turn any
\* schema-declared name into a valid identifier.
C9_NamesAreValidIdentifiers ==
    (IsSome(ident) /\ Unwrap(ident).fn \in {"type_name", "field_name"}) =>
        ValidIdentifier(Unwrap(ident).out)

\* a schema without reference, union or enum whose object shape declares
\* additionalProperties of type integer and no fixed property
IntegerMapShape(schema) ==
    /\ IsNone(schema.reference)
    /\ ~HasUnion(schema)
    /\ IsNone(schema.enum_values)
    /\ IsSome(schema.object)
    /\ Unwrap(schema.object).properties = <<>>
    /\ Unwrap(schema.object).additional_properties
          = Some(ApSchema(SchemaObj(TypeOf("integer"))))

\* the string-keyed map of integers of each target language
MapOfInteger(family) ==
    CASE family = "ts" -> <<"Record<string, ", "number", ">">>
      [] family = "python" -> <<"Dict[str, ", "int", "]">>
      [] family = "go" -> <<"map[string]", "int64">>
      [] family = "rust" -> <<"std::collections::HashMap<String, ", "i64", ">">>

\* C10 (as claimed): a schema with no reference, no union and no enum that
\* declares additionalProperties of type integer and no fixed properties maps
\* to the string-keyed map of integers in every target language.
C10_IntegerMapAnyKind ==
    (IsSome(mout) /\ IntegerMapShape(mfield.schema)) =>
        Unwrap(mout).base = MapOfInteger(Unwrap(Family(mlang)))

\* C10 (amended): the same, for a schema whose primitive kind (its single
\* declared type, or the first of its type list) is object.
C10_IntegerMapOfObjectKind ==
    (IsSome(mout) /\ IntegerMapShape(mfield.schema) /\ IsKind(mfield.schema, "object")) =>
        Unwrap(mout).base = MapOfInteger(Unwrap(Family(mlang)))

\* C10 witness: an object-kind schema of that shape mapped for Go
C10_Witness ==
    /\ IsSome(mout)
    /\ IntegerMapShape(mfield.schema)
    /\ mfield.schema.instance_type = Some(Vec(<<"object", "null">>))
    /\ mlang = L_go
    /\ Unwrap(mout).base = <<"map[string]", "int64">>



\* the node declares an enumeration, not empty, of string values only
StringEnum(schema) ==
    /\ IsSome(schema.enum_values)
    /\ Unwrap(schema.enum_values) # <<>>
    /\ \A i \in 1..Len(Unwrap(schema.enum_values)) : IsSome(Unwrap(schema.enum_values)[i].as_str)

\* the enumerated strings, each in double quotes
QuotedValues(schema) ==
    [i \in 1..Len(Unwrap(schema.enum_values)) |->
        <<"\"">> \o Unwrap(Unwrap(schema.enum_values)[i].as_str) \o <<"\"">>]

\* the rendering of a string enumeration the claim gives for each language
EnumRendering(family, schema) ==
    CASE family = "ts" -> Join(QuotedValues(schema), " | ")
      [] family = "python" -> <<"Literal[">> \o Join(QuotedValues(schema), ", ") \o <<"]">>
      [] family = "go" -> <<"string">>
      [] family = "rust" -> <<"String">>

\* C11 (as claimed): a node with no reference and no union that declares an
\* enumeration of literal strings maps to the literal-string union of its
\* values in ts and python and to the plain string type in go and rust,
\* whether or not it also declares a primitive kind.
C11_StringEnumRendering ==
    (IsSome(mout) /\ IsNone(mfield.schema.reference) /\ ~HasUnion(mfield.schema)
        /\ StringEnum(mfield.schema))
    => Unwrap(mout).base = EnumRendering(Unwrap(Family(mlang)), mfield.schema)



\* the shared classification order of the specification, first match wins
ClaimedClass(schema) ==
    IF IsSome(schema.reference) THEN "reference"
    ELSE IF HasUnion(schema) THEN "union"
    ELSE IF IsSome(schema.enum_values)
            /\ \E i \in 1..Len(Unwrap(schema.enum_values)) :
                  IsSome(Unwrap(schema.enum_values)[i].as_str)
    THEN "enum"
    ELSE IF IsKind(schema, "array") THEN "array"
    ELSE IF IsKind(schema, "object") THEN "object"
    ELSE IF IsSome(map_primitive(schema)) THEN "primitive"
    ELSE "fallback"

\* C12 (as claimed): every map_type classifies a node in the order reference,
\* union, enumeration of string literals, array, object, primitive kind,
\* fallback, first match wins, so the class chosen for a node is the same in
\* ts, python, go and rust.
C12_SharedClassification ==
    IsSome(mout) => Unwrap(mout).class = ClaimedClass(mfield.schema)



\* the declared names a declared name refers to through $ref / allOf links
RefEdges(name) ==
    NodeRefs(normalize_schema(Unwrap(HashGet(Declared, name)))) \cap DeclaredNames

RECURSIVE ReachIn(_, _)
\* the names reached from a set of names in at most k further links
ReachIn(names, k) ==
    IF k = 0 THEN names
    ELSE ReachIn(names \cup UNION {RefEdges(n) : n \in names}, k - 1)

\* some declared name is reachable from itself through $ref / allOf links alone
CyclicChain ==
    \E n \in DeclaredNames : n \in ReachIn(RefEdges(n), Len(Declared))

\* some property schema of a declared object refers to a declared name
PropertyReference ==
    \E i \in 1..Len(Declared) :
        LET schema == normalize_schema(Declared[i].schema)
        IN  /\ IsSome(schema.object)
            /\ \E p \in 1..Len(Unwrap(schema.object).properties) :
                  LET prop == normalize_schema(Unwrap(schema.object).properties[p].schema)
                  IN  /\ IsSome(prop.reference)
                      /\ ref_to_name(Unwrap(prop.reference)).val \in DeclaredNames

\* C13 (as claimed): resolve_components terminates, with a catalog or an
\* error, if and only if no declared name is reachable from itself through
\* $ref / allOf links alone.
C13_TerminatesIffAcyclic ==
    (HasSchemas /\ pc # "start") => ((pc # "overflow") <=> ~CyclicChain)

\* C13 (amended): without such a cycle resolve_components terminates, also
\* when property schemas refer back to their own or to each other's type; with
\* such a cycle it either recurses without bound or returns the
\* UnknownReference error of an undeclared reference met before the cycle was
\* entered, never a catalog; no other error is raised for the cycle.
C13_TerminationAndCycles ==
    (HasSchemas /\ pc # "start") =>
        /\ ~CyclicChain => pc # "overflow"
        /\ CyclicChain =>
              \/ pc = "overflow"
              \/ pc = "failed" /\ Unwrap(err).msg = UnknownReference /\ resolved = <<>>
        /\ IsSome(err) => Unwrap(err).msg \in {UnknownReference, UnsupportedLanguage}

\* C13 witness: a mutually-referential chain whose resolution did not end
C13_Witness ==
    /\ args.openrpc = Some(DocMutualReference)
    /\ CyclicChain
    /\ pc = "overflow"

\* a cycle that passes through a property, resolved to a catalog
C13_PropertyCycleResolved ==
    /\ HasSchemas /\ PropertyReference /\ ~CyclicChain
    /\ pc = "langs" /\ resolved # <<>>

\* a cyclic chain the run did not enter: the error came first
C13_ErrorBeforeCycle ==
    /\ HasSchemas /\ CyclicChain
    /\ pc = "failed" /\ Unwrap(err).msg = UnknownReference



\* the i-th requested language, lower-cased as run does
Requested(i) == to_lowercase(args.lang[i])

\* what a processed language leaves on disk: its directory and its two files
WrittenFor(lang) ==
    {DirEntry(lang)} \cup {[dir |-> lang, name |-> n] : n \in Range(GeneratedFiles(Unwrap(Family(lang))))}

\* C14: run takes the requested languages in list order; the languages it has
\* processed are all supported; at the first unsupported one it returns the
\* unsupported-language error, with the directories and files of the
\* languages before it on disk and nothing written for it or for a language
\* after it; it returns Ok only when every requested language was processed.
C14_UnsupportedLanguageIsFatal ==
    pc \in {"langs", "done", "failed"} =>
        /\ li <= Len(args.lang)
        /\ Len(rendered) = li
        /\ \A i \in 1..li :
              /\ IsSome(Family(Requested(i)))
              /\ rendered[i].lang = Requested(i)
              /\ WrittenFor(Requested(i)) \subseteq disk
        /\ disk \subseteq {StaleFile} \cup UNION {WrittenFor(Requested(i)) : i \in 1..li}
        /\ (pc = "failed" /\ Unwrap(err).msg = UnsupportedLanguage) =>
              /\ li < Len(args.lang)
              /\ IsNone(Family(Requested(li + 1)))
              /\ Unwrap(err).subject = Requested(li + 1)
              /\ \A e \in disk : e.dir # Requested(li + 1)
        /\ pc = "done" => li = Len(args.lang)
        /\ (\E i \in 1..Len(args.lang) : IsNone(Family(Requested(i)))) => pc # "done"

\* C14 witness: the run failed at an unsupported language that has a supported
\* language before it and another after it; the first one's files are on
\* disk and the later one has none
C14_Witness ==
    /\ pc = "failed"
    /\ Unwrap(err).msg = UnsupportedLanguage
    /\ li = 1
    /\ Len(args.lang) = 3
    /\ IsSome(Family(Requested(3)))
    /\ Requested(3) # Requested(1)
    /\ WrittenFor(Requested(1)) \subseteq disk
    /\ \A e \in disk : e.dir # Requested(3) \/ e = StaleFile


====
